---- MODULE Spec2Model ----
(***************************************************************************)
(* Model of genor_agents: the fan-out executor                             *)
(* (MultiInputsAgentExecuter, agent.py) and the regex classification       *)
(* cascade (binary -> multi-label -> multi-class).                         *)
(*                                                                         *)
(* Python values are encoded as follows.                                   *)
(*   dict  : a sequence of <<key, value>> pairs in insertion order         *)
(*   list  : a sequence of values                                          *)
(*   str   : a sequence of one-character strings                           *)
(*   None  : the empty tuple <<>>;  an int r that may be None : <<r>>      *)
(***************************************************************************)
EXTENDS Integers, Sequences, FiniteSets, TLC

VARIABLES
    \* ---- fan-out executor (agent.py) ----
    pc,                \* position of the caller inside __call__
    arg_inputs,        \* the object the caller passed as `inputs`
    inputs,            \* the local name `inputs` (rebound at line 69)
    failing,           \* argument-sets on which the wrapped agent raises
    agent_constructed, \* number of self.agent(**kwargs) constructions
    futures,           \* future_to_key, in submission order
    results,           \* the local dict `results`
    exc,               \* exception that left __call__
    ret,               \* value returned by __call__
    \* ---- regex classification cascade ----
    target,            \* which classifier was constructed
    binary,            \* fields of the RegexBinaryClassifierAgent
    regex_binary_classifier_per_label, \* dict label -> binary classifier
    classes_priorities,\* RegexMultiClassClassifierAgent.classes_priorities
    data,              \* argument of the last classifier call
    cret,              \* value returned by the last classifier call
    trace,             \* loop iterations executed by the last binary call
    multi_label_res,   \* the local multi_label_res of the last resolver call
    calls,             \* the classifier calls made so far, in order
    \* ---- classifier construction ----
    ctor_args,         \* arguments handed to the constructor
    ctor_exc,          \* exception that left the constructor
    \* ---- PDFOCRAgent (pdf_ocr_agent.py) ----
    ocr_pc,            \* position inside PDFOCRAgent.__call__
    pages,             \* the `pages` argument
    total_pages,       \* page count of the document
    max_attempts,      \* self.max_attempts
    attempt,           \* the local `attempt` of _analyze_document
    provider_calls,    \* outcomes of the begin_analyze_document calls made
    pages_str,         \* the page selector sent to the provider
    result,            \* value returned by _analyze_document
    ocr_exc,           \* exception that left PDFOCRAgent.__call__
    output             \* value returned by PDFOCRAgent.__call__

execVars == <<pc, arg_inputs, inputs, failing, agent_constructed, futures,
              results, exc, ret>>
clsVars == <<target, binary, regex_binary_classifier_per_label,
             classes_priorities, data, cret, trace, multi_label_res>>
vars == <<pc, arg_inputs, inputs, failing, agent_constructed, futures,
          results, exc, ret, target, binary,
          regex_binary_classifier_per_label, classes_priorities, data, cret,
          trace, multi_label_res, calls, ctor_args, ctor_exc, ocr_pc, pages,
          total_pages, max_attempts, attempt, provider_calls, pages_str,
          result, ocr_exc, output>>
ctorVars == <<calls, ctor_args, ctor_exc>>
ocrVars == <<ocr_pc, pages, total_pages, max_attempts, attempt,
             provider_calls, pages_str, result, ocr_exc, output>>

----------------------------------------------------------------------------
(* Bounds *)
MaxInputs == 3
MaxArg == 2
MaxWorkers == 2
MaxLen == 4
MaxWord == 1
MaxAlts == 1
MaxRadius == 1
MaxLabels == 2
MaxPriorities == 3
MaxCascadeLen == 3
MaxCalls == 3
MaxPages == 3
MaxPageList == 3
MaxAttempts == 2

None == <<>>

\* no constructor under examination, no call logged
CtorIdle ==
    /\ calls = <<>>
    /\ ctor_args = None
    /\ ctor_exc = None

\* no PDFOCRAgent call in progress
OcrIdle ==
    /\ ocr_pc = "idle"
    /\ pages = <<>>
    /\ total_pages = 0
    /\ max_attempts = 0
    /\ attempt = 0
    /\ provider_calls = <<>>
    /\ pages_str = <<>>
    /\ result = None
    /\ ocr_exc = None
    /\ output = None

Max(a, b) == IF a >= b THEN a ELSE b
Min(a, b) == IF a <= b THEN a ELSE b

SeqsUpTo(S, n) == UNION {[1..k -> S] : k \in 0..n}

Range(s) == {s[i] : i \in 1..Len(s)}

IsInjective(s) == \A i, j \in 1..Len(s) : s[i] = s[j] => i = j

----------------------------------------------------------------------------
(* Fan-out executor: MultiInputsAgentExecuter.__call__                     *)

\* Argument-sets (the per-call **value) and opaque mapping keys.
ArgSets == 1..MaxArg
DictKeys == {10 * i : i \in 1..MaxInputs}

\* The values a caller may pass as `inputs` (mapping keys are opaque, so
\* mappings are listed with their keys in increasing insertion order).
DictInputs ==
    {[type |-> "dict", items |-> [i \in 1..Len(ks) |-> <<ks[i], vs[i]>>]] :
        <<ks, vs>> \in {p \in SeqsUpTo(DictKeys, MaxInputs) \X
                               SeqsUpTo(ArgSets, MaxInputs) :
                          /\ Len(p[1]) = Len(p[2])
                          /\ \A i, j \in 1..Len(p[1]) :
                                i < j => p[1][i] < p[1][j]}}
ListInputs == {[type |-> "list", items |-> vs] :
                  vs \in SeqsUpTo(ArgSets, MaxInputs)}
OtherInputs == {[type |-> t, items |-> <<>>] : t \in {"str", "int"}}
               \cup {[type |-> "tuple", items |-> vs] :
                        vs \in SeqsUpTo(ArgSets, 1)}
ExecInputs == DictInputs \cup ListInputs \cup OtherInputs

\* The wrapped agent: returns a value derived from its argument-set, or
\* raises on the argument-sets in `failing`.
AgentResult(value) == value + 100
AgentCall(fails, key, value) ==
    IF value \in fails
    THEN [ok |-> FALSE, val |-> [type |-> "AgentError", key |-> key,
                                 arg |-> value]]
    ELSE [ok |-> TRUE, val |-> AgentResult(value)]

\* line 67: isinstance(inputs, dict) or isinstance(inputs, list)
IsDictOrListAny(inp) == inp.type \in {"dict", "list", "str", "tuple"}
IsDictOrList(inp) == inp.type = "dict" \/ inp.type = "list"

\* lines 68-69: {i: v for i, v in enumerate(inputs)} for a list
NormalizeEnumerateAll(inp) ==
    IF inp.type = "dict"
    THEN [i \in 1..Len(inp.items) |-> <<i - 1, inp.items[i][2]>>]
    ELSE [i \in 1..Len(inp.items) |-> <<i - 1, inp.items[i]>>]
Normalize(inp) ==
    IF inp.type = "list"
    THEN [i \in 1..Len(inp.items) |-> <<i - 1, inp.items[i]>>]
    ELSE inp.items

\* line 73: one future per item of the normalised mapping
SubmitSkipsFirst(items) ==
    [i \in 1..(Len(items) - 1) |->
        [key |-> items[i + 1][1], value |-> items[i + 1][2],
         state |-> "queued", runs |-> 0, yielded |-> FALSE,
         outcome |-> None]]
Submit(items) ==
    [i \in 1..Len(items) |->
        [key |-> items[i][1], value |-> items[i][2], state |-> "queued",
         runs |-> 0, yielded |-> FALSE, outcome |-> None]]

\* dict assignment d[key] = value (insertion order kept, update in place)
DictSet(d, key, value) ==
    IF \E i \in 1..Len(d) : d[i][1] = key
    THEN [i \in 1..Len(d) |-> IF d[i][1] = key THEN <<key, value>> ELSE d[i]]
    ELSE Append(d, <<key, value>>)

DictValues(d) == [i \in 1..Len(d) |-> d[i][2]]

\* lines 77-79: the value handed back, decided on the local name `inputs`
ResultValue(inp, res) ==
    IF inp.type = "list"
    THEN [type |-> "list", items |-> DictValues(res)]
    ELSE [type |-> "dict", items |-> res]

\* line 71, leaving the with block: ThreadPoolExecutor.shutdown(wait=True)
\* returns once every submitted work item has run.
ShutdownDoneNoWait(fs) == TRUE
ShutdownDone(fs) == \A i \in 1..Len(fs) : fs[i].state = "finished"

NumRunning(fs) == Cardinality({i \in 1..Len(fs) : fs[i].state = "running"})

\* the work queue of the pool is FIFO: the next item to run is the oldest
NextQueued(fs, i) ==
    /\ fs[i].state = "queued"
    /\ \A j \in 1..(i - 1) : fs[j].state # "queued"

ExecIdle ==
    /\ pc = "idle"
    /\ arg_inputs = [type |-> "none", items |-> <<>>]
    /\ inputs = [type |-> "none", items |-> <<>>]
    /\ agent_constructed = 0
    /\ futures = <<>>
    /\ results = <<>>
    /\ exc = None
    /\ ret = [type |-> "none", items |-> <<>>]

\* lines 67-73 and 80-81: validate, normalise, build the agent, submit
Call(inp) ==
    /\ pc = "idle"
    /\ arg_inputs' = inp
    /\ IF IsDictOrList(inp)
       THEN /\ inputs' = (IF inp.type = "list"
                          THEN [type |-> "dict", items |-> Normalize(inp)]
                          ELSE inp)
            /\ results' = <<>>
            /\ agent_constructed' = agent_constructed + 1
            /\ futures' = Submit(Normalize(inp))
            /\ pc' = "collecting"
            /\ UNCHANGED exc
       ELSE /\ exc' = [type |-> "ValueError", key |-> 0, arg |-> 0]
            /\ pc' = "raised"
            /\ inputs' = inp
            /\ UNCHANGED <<results, agent_constructed, futures>>
    /\ UNCHANGED <<failing, ret>>
    /\ UNCHANGED clsVars
    /\ UNCHANGED <<ctorVars, ocrVars>>

\* a pool worker takes the oldest queued work item and invokes the agent
WorkerStart(i) ==
    /\ pc \in {"collecting", "shutdown"}
    /\ i \in 1..Len(futures)
    /\ NextQueued(futures, i)
    /\ NumRunning(futures) < MaxWorkers
    /\ futures' = [futures EXCEPT ![i].state = "running",
                                  ![i].runs = @ + 1]
    /\ UNCHANGED <<pc, arg_inputs, inputs, failing, agent_constructed,
                   results, exc, ret>>
    /\ UNCHANGED clsVars
    /\ UNCHANGED <<ctorVars, ocrVars>>

\* the invocation agent(**value) returns or raises; the future is set
WorkerFinish(i) ==
    /\ pc \in {"collecting", "shutdown"}
    /\ i \in 1..Len(futures)
    /\ futures[i].state = "running"
    /\ futures' = [futures EXCEPT
                      ![i].state = "finished",
                      ![i].outcome = AgentCall(failing, futures[i].key,
                                               futures[i].value)]
    /\ UNCHANGED <<pc, arg_inputs, inputs, failing, agent_constructed,
                   results, exc, ret>>
    /\ UNCHANGED clsVars
    /\ UNCHANGED <<ctorVars, ocrVars>>

\* line 76: future.result() of the future that as_completed yielded: the
\* value the invocation returned, or the exception it raised
FutureResultLastError(fs, i) ==
    IF fs[i].outcome.ok THEN fs[i].outcome
    ELSE LET bad == {j \in 1..Len(fs) :
                        fs[j].state = "finished" /\ ~fs[j].outcome.ok}
         IN  fs[CHOOSE j \in bad : \A k \in bad : k <= j].outcome
FutureResult(fs, i) == fs[i].outcome

\* lines 74-76: as_completed yields a finished future; its result is stored
\* under its key, or its exception leaves the loop
Collect(i) ==
    /\ pc = "collecting"
    /\ i \in 1..Len(futures)
    /\ futures[i].state = "finished"
    /\ ~futures[i].yielded
    /\ futures' = [futures EXCEPT ![i].yielded = TRUE]
    /\ IF FutureResult(futures, i).ok
       THEN /\ results' = DictSet(results, futures[i].key,
                                  FutureResult(futures, i).val)
            /\ UNCHANGED <<pc, exc>>
       ELSE /\ exc' = FutureResult(futures, i).val
            /\ pc' = "shutdown"
            /\ UNCHANGED results
    /\ UNCHANGED <<arg_inputs, inputs, failing, agent_constructed, ret>>
    /\ UNCHANGED clsVars
    /\ UNCHANGED <<ctorVars, ocrVars>>

\* lines 77-79: the loop is exhausted, the with block is left, return
Return ==
    /\ pc = "collecting"
    /\ \A i \in 1..Len(futures) : futures[i].yielded
    /\ ShutdownDone(futures)
    /\ ret' = ResultValue(inputs, results)
    /\ pc' = "returned"
    /\ UNCHANGED <<arg_inputs, inputs, failing, agent_constructed, futures,
                   results, exc>>
    /\ UNCHANGED clsVars
    /\ UNCHANGED <<ctorVars, ocrVars>>

\* the exception leaves the with block once shutdown(wait=True) returns
Propagate ==
    /\ pc = "shutdown"
    /\ ShutdownDone(futures)
    /\ pc' = "raised"
    /\ UNCHANGED <<arg_inputs, inputs, failing, agent_constructed, futures,
                   results, exc, ret>>
    /\ UNCHANGED clsVars
    /\ UNCHANGED <<ctorVars, ocrVars>>

ClsIdle ==
    /\ target = "none"
    /\ binary = None
    /\ regex_binary_classifier_per_label = <<>>
    /\ classes_priorities = <<>>
    /\ data = <<>>
    /\ cret = None
    /\ trace = <<>>
    /\ multi_label_res = <<>>

ExecInit ==
    /\ ExecIdle
    /\ CtorIdle
    /\ OcrIdle
    /\ failing \in SUBSET ArgSets
    /\ ClsIdle

ExecNext ==
    \/ \E inp \in ExecInputs : Call(inp)
    \/ \E i \in 1..MaxInputs : WorkerStart(i)
    \/ \E i \in 1..MaxInputs : WorkerFinish(i)
    \/ \E i \in 1..MaxInputs : Collect(i)
    \/ Return
    \/ Propagate

SpecExec == ExecInit /\ [][ExecNext]_vars

----------------------------------------------------------------------------
(* Regular expressions: the fragment of `re` used by the classifiers.      *)
(* A pattern string is a sequence of literal alternatives w1|w2|...|wn.    *)

Alphabet == {"a", "b"}
Words == SeqsUpTo(Alphabet, MaxWord)
Texts == SeqsUpTo(Alphabet, MaxLen)

\* constructor arguments: a str, or a list of str
StrPatterns == {[type |-> "str", val |-> w] : w \in Words}
ListPatterns(n) == {[type |-> "list", val |-> l] : l \in SeqsUpTo(Words, n)}

\* "|".join(l): the empty list and [""] both give the empty string, which
\* as a pattern has the single empty alternative
JoinKeepEmptyList(l) == l
Join(l) == IF l = <<>> THEN << <<>> >> ELSE l

\* truth value of a pattern string: false for the empty string only
IsEmptyStr(regex) == regex = << <<>> >>

\* _process_regex_patterns (str and list branches)
ProcessRegexPatterns(regex_patterns) ==
    IF regex_patterns.type = "str"
    THEN <<regex_patterns.val>>
    ELSE Join(regex_patterns.val)

\* alternative alt matches s at 0-based position pos
AltMatches(alt, s, pos) ==
    /\ pos + Len(alt) <= Len(s)
    /\ \A k \in 1..Len(alt) : s[pos + k] = alt[k]

\* end of the match of regex at pos (first alternative that matches wins;
\* with must_advance an empty match at pos is rejected), or -1
MatchAt(regex, s, pos, must_advance) ==
    LET ok == {j \in 1..Len(regex) :
                  /\ AltMatches(regex[j], s, pos)
                  /\ (must_advance => Len(regex[j]) > 0)}
    IN  IF ok = {} THEN -1
        ELSE pos + Len(regex[CHOOSE j \in ok : \A k \in ok : j <= k])

\* leftmost match at or after pos: its span <<start, end>>, or None
RECURSIVE Search(_, _, _, _)
Search(regex, s, pos, must_advance) ==
    IF pos > Len(s) THEN None
    ELSE LET e == MatchAt(regex, s, pos, must_advance)
         IN  IF e >= 0 THEN <<pos, e>>
             ELSE Search(regex, s, pos + 1, FALSE)

\* re.search(regex, s) is not None
ReSearch(regex, s) == Search(regex, s, 0, FALSE) # None

\* list(m.span() for m in re.finditer(regex, s)): after a match the scan
\* resumes at its end; after an empty match it must advance
RECURSIVE FindIter(_, _, _, _)
FindIter(regex, s, pos, must_advance) ==
    LET m == Search(regex, s, pos, must_advance)
    IN  IF m = None THEN <<>>
        ELSE <<m>> \o FindIter(regex, s, m[2], m[2] = m[1])

\* s[lo:hi] for 0 <= lo, 0 <= hi
Slice(s, lo, hi) == SubSeq(s, Min(lo, Len(s)) + 1, Min(hi, Len(s)))

----------------------------------------------------------------------------
(* RegexBinaryClassifierAgent *)

ContextRanges == {None} \cup {<<r>> : r \in 0..MaxRadius}
RelevantMatches == {"any", "first", "last"}

BinaryKwargs ==
    [regex_patterns : StrPatterns \cup ListPatterns(MaxAlts),
     unwanted_regex_patterns : StrPatterns \cup ListPatterns(1),
     context_range : ContextRanges,
     relevant_match : RelevantMatches]

\* __init__, lines 15-20
RegexBinaryClassifierAgent(kwargs) ==
    [regex_pattern |-> ProcessRegexPatterns(kwargs.regex_patterns),
     unwanted_regex_patterns |->
         ProcessRegexPatterns(kwargs.unwanted_regex_patterns),
     context_range |-> kwargs.context_range,
     relevant_match |-> kwargs.relevant_match]

\* lines 34-40
ContextSpanNoneAsZero(self, s, start, end) ==
    LET r == IF self.context_range = None THEN 0 ELSE self.context_range[1]
    IN  <<Max(0, start - r), Min(Len(s), end + r)>>
ContextSpanStartOnly(self, s, start, end) ==
    IF self.context_range = None
    THEN <<0, Len(s)>>
    ELSE <<Max(0, start - self.context_range[1]),
           Min(Len(s), start + self.context_range[1])>>
ContextSpan(self, s, start, end) ==
    IF self.context_range = None
    THEN <<0, Len(s)>>
    ELSE <<Max(0, start - self.context_range[1]),
           Min(Len(s), end + self.context_range[1])>>

\* lines 32-44: the outcome of one occurrence
OccurrenceResult(self, s, start, end) ==
    LET context_span == ContextSpan(self, s, start, end)
        context_text == Slice(s, context_span[1], context_span[2])
    IN  IF /\ ~IsEmptyStr(self.unwanted_regex_patterns)
           /\ ReSearch(self.unwanted_regex_patterns, context_text)
        THEN FALSE
        ELSE TRUE

\* lines 46-50: what the loop does with the outcome of an occurrence:
\* "return" it or "continue" with the next occurrence
PolicyStepAnyReturnsAlways(relevant_match, curr_res) ==
    IF relevant_match = "any" THEN "return"
    ELSE IF relevant_match = "first" THEN "return"
    ELSE "continue"
PolicyStepFirstContinues(relevant_match, curr_res) ==
    IF relevant_match = "any"
    THEN (IF curr_res THEN "return" ELSE "continue")
    ELSE "continue"
PolicyStepLastStopsOnTrue(relevant_match, curr_res) ==
    IF relevant_match = "first" THEN "return"
    ELSE (IF curr_res THEN "return" ELSE "continue")
PolicyStep(relevant_match, curr_res) ==
    IF relevant_match = "any"
    THEN (IF curr_res THEN "return" ELSE "continue")
    ELSE IF relevant_match = "first" THEN "return"
    ELSE "continue"

\* __call__, lines 30-52: the loop over re.finditer, from scan position pos
RECURSIVE BinaryLoop(_, _, _, _, _, _)
BinaryLoop(self, s, pos, must_advance, curr_res, tr) ==
    LET m == Search(self.regex_pattern, s, pos, must_advance)
    IN  IF m = None
        THEN [ret |-> curr_res, trace |-> tr]
        ELSE LET res == OccurrenceResult(self, s, m[1], m[2])
                 tr2 == Append(tr, [span |-> m, curr_res |-> res])
             IN  IF PolicyStep(self.relevant_match, res) = "return"
                 THEN [ret |-> res, trace |-> tr2]
                 ELSE BinaryLoop(self, s, m[2], m[2] = m[1], res, tr2)

BinaryClassify(self, s) == BinaryLoop(self, s, 0, FALSE, FALSE, <<>>)

\* one call of the binary classifier on the text `data`
BinaryCall ==
    /\ target = "binary"
    /\ LET r == BinaryClassify(binary, data)
       IN  /\ cret' = <<r.ret>>
           /\ trace' = r.trace
    /\ UNCHANGED <<target, binary, regex_binary_classifier_per_label,
                   classes_priorities, data, multi_label_res>>
    /\ UNCHANGED execVars
    /\ UNCHANGED <<ctorVars, ocrVars>>

BinaryInit ==
    /\ ExecIdle
    /\ CtorIdle
    /\ OcrIdle
    /\ failing = {}
    /\ target = "binary"
    /\ \E kwargs \in BinaryKwargs :
          binary = RegexBinaryClassifierAgent(kwargs)
    /\ regex_binary_classifier_per_label = <<>>
    /\ classes_priorities = <<>>
    /\ data \in Texts
    /\ cret = None
    /\ trace = <<>>
    /\ multi_label_res = <<>>

BinaryNext == BinaryCall

SpecBinary == BinaryInit /\ [][BinaryNext]_vars

----------------------------------------------------------------------------
(* RegexMultiLabelClassifierAgent and RegexMultiClassClassifierAgent *)

Labels == {"positive", "negative", "neutral"}

\* per-label constructor arguments used for the cascade
CascadeKwargs ==
    [regex_patterns : {[type |-> "str", val |-> <<c>>] : c \in Alphabet},
     unwanted_regex_patterns :
         {[type |-> "list", val |-> <<>>], [type |-> "str", val |-> <<"b">>]},
     context_range : {None},
     relevant_match : {"any"}]

\* dicts label -> kwargs, in insertion order
CascadeConfigs ==
    {[i \in 1..Len(ls) |-> <<ls[i], ks[i]>>] :
        <<ls, ks>> \in {p \in SeqsUpTo(Labels, MaxLabels) \X
                               SeqsUpTo(CascadeKwargs, MaxLabels) :
                          Len(p[1]) = Len(p[2]) /\ IsInjective(p[1])}}

\* the classes_priorities argument: None, or a list of label names
PriorityArgs ==
    {None} \cup {<<l>> : l \in {q \in SeqsUpTo(Labels, MaxPriorities) :
                                    IsInjective(q)}}

CascadeTexts == SeqsUpTo(Alphabet, MaxCascadeLen)

\* list(d.keys())
DictKeyList(d) == [i \in 1..Len(d) |-> d[i][1]]

\* _get_label_to_regex_binary_classifier_mapping, lines 37-51
LabelToClassifierMapping(kwargs_per_label) ==
    [i \in 1..Len(kwargs_per_label) |->
        <<kwargs_per_label[i][1],
          RegexBinaryClassifierAgent(kwargs_per_label[i][2])>>]

\* RegexMultiLabelClassifierAgent.__call__, lines 19-35
RECURSIVE MultiLabelLoopStopAtFirst(_, _, _, _)
MultiLabelLoopStopAtFirst(per_label, s, i, labels) ==
    IF i > Len(per_label) THEN labels
    ELSE IF BinaryClassify(per_label[i][2], s).ret
         THEN Append(labels, per_label[i][1])
         ELSE MultiLabelLoopStopAtFirst(per_label, s, i + 1, labels)
RECURSIVE MultiLabelLoop(_, _, _, _)
MultiLabelLoop(per_label, s, i, labels) ==
    IF i > Len(per_label) THEN labels
    ELSE LET res == BinaryClassify(per_label[i][2], s).ret
         IN  MultiLabelLoop(per_label, s, i + 1,
                            IF res THEN Append(labels, per_label[i][1])
                            ELSE labels)

MultiLabelClassify(per_label, s) == MultiLabelLoop(per_label, s, 1, <<>>)

\* RegexMultiClassClassifierAgent.__init__, lines 16-24
ResolvePriorities(kwargs_per_class, priorities_arg) ==
    IF priorities_arg = None
    THEN DictKeyList(kwargs_per_class)
    ELSE priorities_arg[1]

\* RegexMultiClassClassifierAgent.__call__, lines 36-39: the first class of
\* the priority list found in the multi-label result, or None
RECURSIVE ResolveLoopByResultOrder(_, _, _)
ResolveLoopByResultOrder(priorities, ml, i) ==
    IF i > Len(ml) THEN None
    ELSE IF ml[i] \in Range(priorities) THEN <<ml[i]>>
         ELSE ResolveLoopByResultOrder(priorities, ml, i + 1)
RECURSIVE ResolveLoop(_, _, _)
ResolveLoop(priorities, ml, i) ==
    IF i > Len(priorities) THEN None
    ELSE IF priorities[i] \in Range(ml) THEN <<priorities[i]>>
         ELSE ResolveLoop(priorities, ml, i + 1)

\* one call of the multi-label classifier on the text `data`
MultiLabelCall ==
    /\ target = "multilabel"
    /\ cret' = <<MultiLabelClassify(regex_binary_classifier_per_label, data)>>
    /\ UNCHANGED <<target, binary, regex_binary_classifier_per_label,
                   classes_priorities, data, trace, multi_label_res>>
    /\ UNCHANGED execVars
    /\ UNCHANGED <<ctorVars, ocrVars>>

\* one call of the multi-class resolver on the text `data`
MultiClassCall ==
    /\ target = "multiclass"
    /\ LET ml == MultiLabelClassify(regex_binary_classifier_per_label, data)
       IN  /\ multi_label_res' = ml
           /\ cret' = <<ResolveLoop(classes_priorities, ml, 1)>>
    /\ UNCHANGED <<target, binary, regex_binary_classifier_per_label,
                   classes_priorities, data, trace>>
    /\ UNCHANGED execVars
    /\ UNCHANGED <<ctorVars, ocrVars>>

CascadeInit ==
    /\ ExecIdle
    /\ CtorIdle
    /\ OcrIdle
    /\ failing = {}
    /\ binary = None
    /\ \E cfg \in CascadeConfigs :
          /\ regex_binary_classifier_per_label = LabelToClassifierMapping(cfg)
          /\ \/ /\ target = "multilabel"
                /\ classes_priorities = <<>>
             \/ /\ target = "multiclass"
                /\ \E pa \in PriorityArgs :
                      classes_priorities = ResolvePriorities(cfg, pa)
    /\ data \in CascadeTexts
    /\ cret = None
    /\ trace = <<>>
    /\ multi_label_res = <<>>

CascadeNext == MultiLabelCall \/ MultiClassCall

SpecCascade == CascadeInit /\ [][CascadeNext]_vars

----------------------------------------------------------------------------
(* Construction of the classifiers, with arguments of any type *)

\* a list element that is not a str (for instance the int 1)
NonStr == <<"#int">>

\* pattern arguments of every kind: a str, a list whose elements are str or
\* not, a value that is neither (an int, None)
CtorPatternArgs ==
    StrPatterns
        \cup {[type |-> "list", val |-> l] :
                 l \in SeqsUpTo(Words \cup {NonStr}, MaxAlts)}
        \cup {[type |-> t, val |-> <<>>] : t \in {"int", "NoneType"}}

\* _process_regex_patterns, lines 55-73: the pattern string, or the
\* exception raised ("|".join raises TypeError on an element that is not a
\* str; the else branch raises ValueError)
ProcessOutcome(regex_patterns) ==
    IF regex_patterns.type = "str"
    THEN [ok |-> TRUE, val |-> ProcessRegexPatterns(regex_patterns)]
    ELSE IF regex_patterns.type = "list"
    THEN (IF \E i \in 1..Len(regex_patterns.val) :
                 regex_patterns.val[i] = NonStr
          THEN [ok |-> FALSE, val |-> "TypeError"]
          ELSE [ok |-> TRUE, val |-> ProcessRegexPatterns(regex_patterns)])
    ELSE [ok |-> FALSE, val |-> "ValueError"]

\* RegexBinaryClassifierAgent.__init__, lines 15-20: the inclusion patterns
\* are processed first, then the exclusion patterns
ConstructBinaryOutcome(kwargs) ==
    LET incl == ProcessOutcome(kwargs.regex_patterns)
        excl == ProcessOutcome(kwargs.unwanted_regex_patterns)
    IN  IF ~incl.ok THEN incl
        ELSE IF ~excl.ok THEN excl
        ELSE [ok |-> TRUE,
              val |-> [regex_pattern |-> incl.val,
                       unwanted_regex_patterns |-> excl.val,
                       context_range |-> kwargs.context_range,
                       relevant_match |-> kwargs.relevant_match]]

\* _get_label_to_regex_binary_classifier_mapping, lines 48-51: the labels
\* are built in insertion order; the first failure leaves the constructor
RECURSIVE ConstructMultiLabelLoop(_, _, _)
ConstructMultiLabelLoop(kwargs_per_label, i, built) ==
    IF i > Len(kwargs_per_label) THEN [ok |-> TRUE, val |-> built]
    ELSE LET o == ConstructBinaryOutcome(kwargs_per_label[i][2])
         IN  IF ~o.ok THEN o
             ELSE ConstructMultiLabelLoop(
                      kwargs_per_label, i + 1,
                      Append(built, <<kwargs_per_label[i][1], o.val>>))

ConstructMultiLabelOutcome(kwargs_per_label) ==
    ConstructMultiLabelLoop(kwargs_per_label, 1, <<>>)

CtorBinaryKwargs ==
    [regex_patterns : CtorPatternArgs,
     unwanted_regex_patterns : CtorPatternArgs,
     context_range : {None},
     relevant_match : {"any"}]

CtorLabelKwargs ==
    [regex_patterns : {[type |-> "str", val |-> <<"a">>],
                       [type |-> "list", val |-> <<>>],
                       [type |-> "list", val |-> <<NonStr>>],
                       [type |-> "int", val |-> <<>>]},
     unwanted_regex_patterns : {[type |-> "list", val |-> <<>>],
                                [type |-> "int", val |-> <<>>]},
     context_range : {None},
     relevant_match : {"any"}]

CtorLabelConfigs ==
    {[i \in 1..Len(ls) |-> <<ls[i], ks[i]>>] :
        <<ls, ks>> \in {p \in SeqsUpTo(Labels, MaxLabels) \X
                               SeqsUpTo(CtorLabelKwargs, MaxLabels) :
                          Len(p[1]) = Len(p[2]) /\ IsInjective(p[1])}}

\* RegexBinaryClassifierAgent(**kwargs)
ConstructBinary ==
    /\ target = "none"
    /\ ctor_args # None
    /\ ctor_args[1].kind = "binary"
    /\ LET o == ConstructBinaryOutcome(ctor_args[1].kwargs)
       IN  IF o.ok
           THEN /\ target' = "binary"
                /\ binary' = o.val
                /\ UNCHANGED ctor_exc
           ELSE /\ target' = "failed"
                /\ ctor_exc' = <<o.val>>
                /\ UNCHANGED binary
    /\ UNCHANGED <<regex_binary_classifier_per_label, classes_priorities,
                   data, cret, trace, multi_label_res, calls, ctor_args>>
    /\ UNCHANGED <<execVars, ocrVars>>

\* RegexMultiLabelClassifierAgent(regex_binary_classifier_kwargs_per_label)
ConstructMultiLabel ==
    /\ target = "none"
    /\ ctor_args # None
    /\ ctor_args[1].kind = "multilabel"
    /\ LET o == ConstructMultiLabelOutcome(ctor_args[1].kwargs)
       IN  IF o.ok
           THEN /\ target' = "multilabel"
                /\ regex_binary_classifier_per_label' = o.val
                /\ UNCHANGED ctor_exc
           ELSE /\ target' = "failed"
                /\ ctor_exc' = <<o.val>>
                /\ UNCHANGED regex_binary_classifier_per_label
    /\ UNCHANGED <<binary, classes_priorities, data, cret, trace,
                   multi_label_res, calls, ctor_args>>
    /\ UNCHANGED <<execVars, ocrVars>>

CtorInit ==
    /\ ExecIdle
    /\ OcrIdle
    /\ failing = {}
    /\ ClsIdle
    /\ calls = <<>>
    /\ ctor_exc = None
    /\ \/ \E k \in CtorBinaryKwargs :
             ctor_args = <<[kind |-> "binary", kwargs |-> k]>>
       \/ \E c \in CtorLabelConfigs :
             ctor_args = <<[kind |-> "multilabel", kwargs |-> c]>>

CtorNext == ConstructBinary \/ ConstructMultiLabel

SpecCtor == CtorInit /\ [][CtorNext]_vars

----------------------------------------------------------------------------
(* Repeated calls of one classifier *)

StatelessTexts == {<<>>, <<"a">>, <<"b">>, <<"a", "b">>}

StatelessBinaryKwargs ==
    [regex_patterns : {[type |-> "str", val |-> <<c>>] : c \in Alphabet},
     unwanted_regex_patterns :
         {[type |-> "list", val |-> <<>>], [type |-> "str", val |-> <<"b">>]},
     context_range : {None, <<1>>},
     relevant_match : RelevantMatches]

StatelessConfigs == {c \in CascadeConfigs : Len(c) <= 2}

StatelessPriorityArgs == {None, <<<<"negative", "positive", "neutral">>>>}

\* the attributes of a binary classifier after __call__ (lines 30-52 assign
\* to no attribute of self)
SelfAfterCallKeepsWindow(self, s) == [self EXCEPT !.context_range = <<0>>]
SelfAfterCall(self, s) == self

\* the per-label classifiers after a multi-label call (lines 30-35)
PerLabelAfterCall(per_label, s) ==
    [i \in 1..Len(per_label) |->
        <<per_label[i][1], SelfAfterCall(per_label[i][2], s)>>]

\* binary classifier called on the text d
CallBinaryOn(d) ==
    /\ target = "binary"
    /\ Len(calls) < MaxCalls
    /\ LET r == BinaryClassify(binary, d)
       IN  /\ cret' = <<r.ret>>
           /\ trace' = r.trace
           /\ calls' = Append(calls, [data |-> d, ret |-> r.ret])
    /\ binary' = SelfAfterCall(binary, d)
    /\ data' = d
    /\ UNCHANGED <<target, regex_binary_classifier_per_label,
                   classes_priorities, multi_label_res, ctor_args, ctor_exc>>
    /\ UNCHANGED <<execVars, ocrVars>>

\* multi-label classifier called on the text d
CallMultiLabelOn(d) ==
    /\ target = "multilabel"
    /\ Len(calls) < MaxCalls
    /\ LET r == MultiLabelClassify(regex_binary_classifier_per_label, d)
       IN  /\ cret' = <<r>>
           /\ calls' = Append(calls, [data |-> d, ret |-> r])
    /\ regex_binary_classifier_per_label' =
           PerLabelAfterCall(regex_binary_classifier_per_label, d)
    /\ data' = d
    /\ UNCHANGED <<target, binary, classes_priorities, trace,
                   multi_label_res, ctor_args, ctor_exc>>
    /\ UNCHANGED <<execVars, ocrVars>>

\* multi-class resolver called on the text d
CallMultiClassOn(d) ==
    /\ target = "multiclass"
    /\ Len(calls) < MaxCalls
    /\ LET ml == MultiLabelClassify(regex_binary_classifier_per_label, d)
           r == ResolveLoop(classes_priorities, ml, 1)
       IN  /\ multi_label_res' = ml
           /\ cret' = <<r>>
           /\ calls' = Append(calls, [data |-> d, ret |-> r])
    /\ regex_binary_classifier_per_label' =
           PerLabelAfterCall(regex_binary_classifier_per_label, d)
    /\ data' = d
    /\ UNCHANGED <<target, binary, classes_priorities, trace, ctor_args,
                   ctor_exc>>
    /\ UNCHANGED <<execVars, ocrVars>>

StatelessInit ==
    /\ ExecIdle
    /\ OcrIdle
    /\ failing = {}
    /\ data = <<>>
    /\ cret = None
    /\ trace = <<>>
    /\ multi_label_res = <<>>
    /\ calls = <<>>
    /\ ctor_exc = None
    /\ \/ \E k \in StatelessBinaryKwargs :
             /\ ctor_args = <<[kind |-> "binary", kwargs |-> k,
                               priorities |-> None]>>
             /\ target = "binary"
             /\ binary = RegexBinaryClassifierAgent(k)
             /\ regex_binary_classifier_per_label = <<>>
             /\ classes_priorities = <<>>
       \/ \E c \in StatelessConfigs :
             /\ ctor_args = <<[kind |-> "multilabel", kwargs |-> c,
                               priorities |-> None]>>
             /\ target = "multilabel"
             /\ binary = None
             /\ regex_binary_classifier_per_label = LabelToClassifierMapping(c)
             /\ classes_priorities = <<>>
       \/ \E c \in StatelessConfigs, pa \in StatelessPriorityArgs :
             /\ ctor_args = <<[kind |-> "multiclass", kwargs |-> c,
                               priorities |-> pa]>>
             /\ target = "multiclass"
             /\ binary = None
             /\ regex_binary_classifier_per_label = LabelToClassifierMapping(c)
             /\ classes_priorities = ResolvePriorities(c, pa)

StatelessNext ==
    \/ \E d \in StatelessTexts : CallBinaryOn(d)
    \/ \E d \in StatelessTexts : CallMultiLabelOn(d)
    \/ \E d \in StatelessTexts : CallMultiClassOn(d)

SpecStateless == StatelessInit /\ [][StatelessNext]_vars

----------------------------------------------------------------------------
(* PDFOCRAgent: __call__, _format_pages, _analyze_document,                *)
(* _construct_output.  The page selector string "1-2,4" is the sequence of *)
(* its comma-separated items: <<1, 2>> for "1-2" and <<4>> for "4".        *)

\* sorted(S)
RECURSIVE Sorted(_)
Sorted(S) ==
    IF S = {} THEN <<>>
    ELSE LET m == CHOOSE x \in S : \A y \in S : x <= y
         IN  <<m>> \o Sorted(S \ {m})

\* f"{range_start}" or f"{range_start}-{range_end}", lines 167-170, 174-177
FormatRange(range_start, range_end) ==
    IF range_start = range_end THEN <<range_start>>
    ELSE <<range_start, range_end>>

\* _format_pages, lines 163-177: the loop over valid_pages[1:] and the
\* closing of the last range
RECURSIVE FormatLoop(_, _, _, _, _)
FormatLoop(valid_pages, i, range_start, range_end, formatted_pages) ==
    IF i > Len(valid_pages)
    THEN Append(formatted_pages, FormatRange(range_start, range_end))
    ELSE IF valid_pages[i] = range_end + 1
    THEN FormatLoop(valid_pages, i + 1, range_start, valid_pages[i],
                    formatted_pages)
    ELSE FormatLoop(valid_pages, i + 1, valid_pages[i], valid_pages[i],
                    Append(formatted_pages,
                           FormatRange(range_start, range_end)))

\* _format_pages, lines 146-179
FormatPages(pgs, total) ==
    LET valid_pages == Sorted({pgs[i] : i \in {j \in 1..Len(pgs) :
                                       1 <= pgs[j] /\ pgs[j] <= total}})
    IN  IF valid_pages = <<>> THEN <<>>
        ELSE FormatLoop(valid_pages, 2, valid_pages[1], valid_pages[1], <<>>)

\* the pages the provider analyses for a selector: every page of the
\* document for the empty selector, else the pages the items name
ProviderPages(selector, total) ==
    IF selector = <<>> THEN 1..total
    ELSE UNION {IF Len(selector[i]) = 1 THEN {selector[i][1]}
                ELSE selector[i][1]..selector[i][2] :
                i \in 1..Len(selector)}

\* _construct_output, lines 100-104: the metadata
PagesAnalyzed(pgs, total) ==
    IF pgs # <<>> THEN pgs ELSE [i \in 1..total |-> i]

\* line 59: while attempt < self.max_attempts
LoopCondition(att, max) == att < max

OcrArgs ==
    /\ pages \in SeqsUpTo(0..(MaxPages + 1), MaxPageList)
    /\ total_pages \in 1..MaxPages
    /\ max_attempts \in (-1)..MaxAttempts

\* __call__, lines 37-40, and line 58: read the document, format the page
\* selector, enter _analyze_document
ReadAndFormat ==
    /\ ocr_pc = "called"
    /\ pages_str' = FormatPages(pages, total_pages)
    /\ attempt' = 0
    /\ ocr_pc' = "analyze"
    /\ UNCHANGED <<pages, total_pages, max_attempts, provider_calls, result,
                   ocr_exc, output>>
    /\ UNCHANGED <<execVars, clsVars, ctorVars>>

\* lines 59-71: the provider call succeeds and its result is returned
AttemptSucceeds ==
    /\ ocr_pc = "analyze"
    /\ LoopCondition(attempt, max_attempts)
    /\ provider_calls' = Append(provider_calls, "ok")
    /\ result' = <<[call |-> Len(provider_calls) + 1,
                    analyzed |-> ProviderPages(pages_str, total_pages)]>>
    /\ ocr_pc' = "construct"
    /\ UNCHANGED <<pages, total_pages, max_attempts, attempt, pages_str,
                   ocr_exc, output>>
    /\ UNCHANGED <<execVars, clsVars, ctorVars>>

\* lines 59-69 and 72-86: the provider call raises; retry after the sleep,
\* or re-raise when no attempt is left
AttemptFails ==
    /\ ocr_pc = "analyze"
    /\ LoopCondition(attempt, max_attempts)
    /\ provider_calls' = Append(provider_calls, "error")
    /\ attempt' = attempt + 1
    /\ IF attempt + 1 < max_attempts
       THEN UNCHANGED <<ocr_pc, ocr_exc>>
       ELSE /\ ocr_exc' = <<[type |-> "ProviderError",
                             call |-> Len(provider_calls) + 1]>>
            /\ ocr_pc' = "raised"
    /\ UNCHANGED <<pages, total_pages, max_attempts, pages_str, result,
                   output>>
    /\ UNCHANGED <<execVars, clsVars, ctorVars>>

\* line 59 is false: the function body ends and None is returned
LoopExit ==
    /\ ocr_pc = "analyze"
    /\ ~LoopCondition(attempt, max_attempts)
    /\ result' = None
    /\ ocr_pc' = "construct"
    /\ UNCHANGED <<pages, total_pages, max_attempts, attempt, provider_calls,
                   pages_str, ocr_exc, output>>
    /\ UNCHANGED <<execVars, clsVars, ctorVars>>

\* __call__, lines 41-45, and _construct_output, lines 100-112
\* (result.content raises AttributeError when result is None)
ConstructOutput ==
    /\ ocr_pc = "construct"
    /\ IF result = None
       THEN /\ ocr_exc' = <<[type |-> "AttributeError", call |-> 0]>>
            /\ ocr_pc' = "raised"
            /\ UNCHANGED output
       ELSE /\ output' = <<[total_pages |-> total_pages,
                            pages_analyzed |->
                                PagesAnalyzed(pages, total_pages),
                            raw_ocr_result |-> result[1]]>>
            /\ ocr_pc' = "returned"
            /\ UNCHANGED ocr_exc
    /\ UNCHANGED <<pages, total_pages, max_attempts, attempt, provider_calls,
                   pages_str, result>>
    /\ UNCHANGED <<execVars, clsVars, ctorVars>>

OcrInit ==
    /\ ExecIdle
    /\ CtorIdle
    /\ ClsIdle
    /\ failing = {}
    /\ ocr_pc = "called"
    /\ OcrArgs
    /\ attempt = 0
    /\ provider_calls = <<>>
    /\ pages_str = <<>>
    /\ result = None
    /\ ocr_exc = None
    /\ output = None

OcrNext ==
    \/ ReadAndFormat
    \/ AttemptSucceeds
    \/ AttemptFails
    \/ LoopExit
    \/ ConstructOutput

SpecOcr == OcrInit /\ [][OcrNext]_vars

----------------------------------------------------------------------------
(* Properties of the fan-out executor *)

\* C1: a run on a list of n argument-sets in which no invocation fails
\* returns a sequence of length n whose element i is agent(**inputs[i]),
\* whatever the completion order (n = 0 included).
C1_ListResultIsOrderedSequence ==
    (pc = "returned" /\ arg_inputs.type = "list") =>
        /\ ret.type = "list"
        /\ Len(ret.items) = Len(arg_inputs.items)
        /\ \A i \in 1..Len(arg_inputs.items) :
              ret.items[i] = AgentResult(arg_inputs.items[i])

\* C2: a run on a mapping in which no invocation fails returns a mapping
\* whose key set is the key set of the inputs and whose value at each key k
\* is agent(**inputs[k]), for every completion order.
C2_DictResultKeepsKeys ==
    (pc = "returned" /\ arg_inputs.type = "dict") =>
        /\ ret.type = "dict"
        /\ IsInjective([i \in 1..Len(ret.items) |-> ret.items[i][1]])
        /\ {ret.items[i][1] : i \in 1..Len(ret.items)}
              = {arg_inputs.items[i][1] : i \in 1..Len(arg_inputs.items)}
        /\ \A i \in 1..Len(arg_inputs.items) :
              <<arg_inputs.items[i][1], AgentResult(arg_inputs.items[i][2])>>
                  \in Range(ret.items)

\* a mapping run whose tasks were collected out of submission order
C2_Witness ==
    /\ pc = "returned"
    /\ arg_inputs.type = "dict"
    /\ Len(arg_inputs.items) >= 2
    /\ ret.items[1][1] # arg_inputs.items[1][1]
    /\ arg_inputs.items[1][2] # arg_inputs.items[2][2]

\* C3: when an invocation raises, no sibling task is cancelled: every
\* submitted task has run to completion by the time the exception, unwrapped,
\* reaches the caller.
C3_SiblingsFinishBeforeRaise ==
    (pc = "raised" /\ exc.type = "AgentError") =>
        /\ \A i \in 1..Len(futures) :
              futures[i].state = "finished" /\ futures[i].runs = 1
        /\ \E i \in 1..Len(futures) :
              /\ ~futures[i].outcome.ok
              /\ futures[i].outcome.val = exc
              /\ exc = [type |-> "AgentError", key |-> futures[i].key,
                        arg |-> futures[i].value]

\* the exception reached the caller and a sibling that was never collected
\* has nevertheless run to completion
C3_Witness ==
    /\ pc = "raised"
    /\ exc.type = "AgentError"
    /\ \E i \in 1..Len(futures) :
          /\ ~futures[i].yielded
          /\ futures[i].state = "finished"
          /\ futures[i].outcome.ok

\* C4: inputs that are neither a mapping nor a sequence (a string, an
\* integer) fail with the invalid-inputs error; no agent is constructed, no
\* worker is scheduled and no invocation takes place.
C4_InvalidInputsFailFast ==
    arg_inputs.type \in {"str", "int"} =>
        /\ pc = "raised"
        /\ exc.type = "ValueError"
        /\ agent_constructed = 0
        /\ futures = <<>>
        /\ results = <<>>
        /\ ret.type = "none"

C4_Witness ==
    /\ arg_inputs.type \in {"str", "int"}
    /\ pc = "raised"
    /\ exc.type = "ValueError"

\* C13: in one run the agent is invoked exactly once for each input key
\* with that key's keyword arguments: no key is skipped, none is invoked
\* twice, and a failed invocation is not retried.
C13_OneInvocationPerKey ==
    (pc # "idle" /\ arg_inputs.type \in {"dict", "list"}) =>
        /\ Len(futures) = Len(arg_inputs.items)
        /\ \A i \in 1..Len(futures) :
              /\ futures[i].key = (IF arg_inputs.type = "list" THEN i - 1
                                   ELSE arg_inputs.items[i][1])
              /\ futures[i].value = (IF arg_inputs.type = "list"
                                     THEN arg_inputs.items[i]
                                     ELSE arg_inputs.items[i][2])
              /\ futures[i].runs <= 1
              /\ futures[i].state # "queued" => futures[i].runs = 1
              /\ pc \in {"returned", "raised"} => futures[i].runs = 1

\* a run ended by an exception: the failed invocation and a sibling have
\* each run exactly once
C13_Witness ==
    /\ pc = "raised"
    /\ exc.type = "AgentError"
    /\ Len(futures) >= 2
    /\ \A i \in 1..Len(futures) : futures[i].runs = 1
    /\ \E i \in 1..Len(futures) : futures[i].outcome.ok

\* C14: when invocations raise, the caller receives the exception of the
\* first failing invocation met while collecting (not that of a later
\* failure), and no partial result mapping is returned.
C14_FirstCollectedFailureDelivered ==
    (pc \in {"shutdown", "raised"} /\ exc.type = "AgentError") =>
        LET failed == {i \in 1..Len(futures) :
                          futures[i].yielded /\ ~futures[i].outcome.ok}
        IN  /\ Cardinality(failed) = 1
            /\ \A i \in failed :
                  exc = [type |-> "AgentError", key |-> futures[i].key,
                         arg |-> futures[i].value]
            /\ ret.type = "none"

\* results were collected, then a failure; another failed invocation was
\* never collected
C14_Witness ==
    /\ pc = "raised"
    /\ exc.type = "AgentError"
    /\ results # <<>>
    /\ \E i \in 1..Len(futures) :
          /\ ~futures[i].yielded
          /\ futures[i].state = "finished"
          /\ ~futures[i].outcome.ok
          /\ futures[i].key > exc.key

----------------------------------------------------------------------------
(* Properties of the binary classifier *)

\* the occurrences of the inclusion expression in the classified text
Occurrences == FindIter(binary.regex_pattern, data, 0, FALSE)

\* some exclusion alternative occurs in s entirely inside [lo, hi)
ExclusionInside(self, s, lo, hi) ==
    \E j \in 1..Len(self.unwanted_regex_patterns) :
        \E p \in lo..hi :
            LET alt == self.unwanted_regex_patterns[j]
            IN  /\ p + Len(alt) <= hi
                /\ \A k \in 1..Len(alt) : s[p + k] = alt[k]

\* the context window of an occurrence, as absolute positions of the text
Window(self, s, span) ==
    IF self.context_range = None
    THEN <<0, Len(s)>>
    ELSE LET r == self.context_range[1]
         IN  <<IF span[1] - r < 0 THEN 0 ELSE span[1] - r,
               IF span[2] + r > Len(s) THEN Len(s) ELSE span[2] + r>>

Disqualified(self, s, span) ==
    /\ self.unwanted_regex_patterns # << <<>> >>
    /\ ExclusionInside(self, s, Window(self, s, span)[1],
                       Window(self, s, span)[2])

BinaryCalled == target = "binary" /\ cret # None

\* C5: under policy `any` the result is true iff at least one occurrence of
\* the inclusion expression is qualified; false with zero occurrences.
C5_AnyIffSomeQualified ==
    (BinaryCalled /\ binary.relevant_match = "any") =>
        cret[1] = (\E i \in 1..Len(Occurrences) :
                      ~Disqualified(binary, data, Occurrences[i]))

\* policy any: the first occurrence is disqualified, a later one qualifies
C5_Witness ==
    /\ BinaryCalled
    /\ binary.relevant_match = "any"
    /\ Len(Occurrences) >= 2
    /\ Occurrences[1][2] > Occurrences[1][1]
    /\ Disqualified(binary, data, Occurrences[1])
    /\ cret[1] = TRUE

\* C6: under policy `first` the result is the outcome of the leftmost
\* occurrence only; false with zero occurrences.
C6_FirstIsLeftmostOutcome ==
    (BinaryCalled /\ binary.relevant_match = "first") =>
        cret[1] = (/\ Len(Occurrences) >= 1
                   /\ ~Disqualified(binary, data, Occurrences[1]))

\* policy first: leftmost occurrence disqualified, a later one qualified
C6_Witness ==
    /\ BinaryCalled
    /\ binary.relevant_match = "first"
    /\ Len(Occurrences) >= 2
    /\ Disqualified(binary, data, Occurrences[1])
    /\ ~Disqualified(binary, data, Occurrences[2])
    /\ cret[1] = FALSE

\* C7: under policy `last` every occurrence is scanned and the result is the
\* outcome of the rightmost occurrence; false with zero occurrences.
C7_LastIsRightmostOutcome ==
    (BinaryCalled /\ binary.relevant_match = "last") =>
        /\ Len(trace) = Len(Occurrences)
        /\ \A i \in 1..Len(trace) : trace[i].span = Occurrences[i]
        /\ cret[1] = (/\ Len(Occurrences) >= 1
                      /\ ~Disqualified(binary, data,
                                       Occurrences[Len(Occurrences)]))

\* policy last: an earlier occurrence qualified, the rightmost disqualified
C7_Witness ==
    /\ BinaryCalled
    /\ binary.relevant_match = "last"
    /\ Len(Occurrences) >= 2
    /\ Occurrences[1][2] > Occurrences[1][1]
    /\ ~Disqualified(binary, data, Occurrences[1])
    /\ Disqualified(binary, data, Occurrences[Len(Occurrences)])
    /\ cret[1] = FALSE

\* C8: an occurrence [start, end) is disqualified iff an exclusion
\* expression is configured and matches inside its context window: the whole
\* text when the radius is unbounded, else
\* [max(0, start - r), min(len(text), end + r)).
C8_DisqualifiedIffExclusionInWindow ==
    BinaryCalled =>
        \A i \in 1..Len(trace) :
            trace[i].curr_res = ~Disqualified(binary, data, trace[i].span)

\* bounded radius: the exclusion expression occurs in the text, but only
\* outside (or across the edge of) the window, and the occurrence qualifies
C8_Witness ==
    /\ BinaryCalled
    /\ binary.context_range # None
    /\ binary.unwanted_regex_patterns # << <<>> >>
    /\ ExclusionInside(binary, data, 0, Len(data))
    /\ \E i \in 1..Len(trace) :
          /\ trace[i].curr_res = TRUE
          /\ trace[i].span[2] > trace[i].span[1]
          /\ Window(binary, data, trace[i].span)[1] > 0
          /\ \E j \in 1..Len(trace) : trace[j].curr_res = FALSE

\* C15: with an unbounded context window every occurrence has the same
\* outcome, so `any`, `first` and `last` return the same value: true iff the
\* inclusion expression occurs in the text and the exclusion expression, if
\* configured, matches nowhere in the text.
C15_UnboundedPoliciesAgree ==
    (BinaryCalled /\ binary.context_range = None) =>
        /\ \A i, j \in 1..Len(Occurrences) :
              OccurrenceResult(binary, data, Occurrences[i][1],
                               Occurrences[i][2])
                  = OccurrenceResult(binary, data, Occurrences[j][1],
                                     Occurrences[j][2])
        /\ cret[1] = (/\ Len(Occurrences) >= 1
                      /\ ~(/\ binary.unwanted_regex_patterns # << <<>> >>
                           /\ ExclusionInside(binary, data, 0, Len(data))))
        /\ \A p \in RelevantMatches :
              BinaryClassify([binary EXCEPT !.relevant_match = p], data).ret
                  = cret[1]

\* unbounded window, several occurrences, and an exclusion match that lies
\* apart from the first occurrence
C15_Witness ==
    /\ BinaryCalled
    /\ binary.context_range = None
    /\ binary.relevant_match = "any"
    /\ Len(Occurrences) >= 2
    /\ Occurrences[1][2] > Occurrences[1][1]
    /\ binary.unwanted_regex_patterns # << <<>> >>
    /\ ExclusionInside(binary, data, Occurrences[2][2], Len(data))
    /\ ~ExclusionInside(binary, data, 0, Occurrences[2][2])
    /\ cret[1] = FALSE

----------------------------------------------------------------------------
(* Properties of the cascade *)

\* C9: the resolver returns the first label of the priority list present in
\* the multi-label result for the text, and None exactly when no label of
\* the priority list is present in it.
C9_FirstPriorityPresent ==
    (target = "multiclass" /\ cret # None) =>
        LET present == {i \in 1..Len(classes_priorities) :
                           classes_priorities[i] \in Range(multi_label_res)}
        IN  /\ multi_label_res
                  = MultiLabelClassify(regex_binary_classifier_per_label, data)
            /\ (cret[1] = None) <=> (present = {})
            /\ present # {} =>
                  \E i \in present :
                      /\ cret[1] = <<classes_priorities[i]>>
                      /\ \A j \in present : i <= j

\* two labels matched, and the priority list ranks them in the order
\* opposite to the multi-label result (after a label that did not match)
C9_Witness ==
    /\ target = "multiclass"
    /\ cret # None
    /\ Len(multi_label_res) = 2
    /\ Len(classes_priorities) = 3
    /\ classes_priorities[1] \notin Range(multi_label_res)
    /\ classes_priorities[2] = multi_label_res[2]
    /\ classes_priorities[3] = multi_label_res[1]
    /\ cret[1] = <<multi_label_res[2]>>

\* C10: the multi-label result contains a label iff that label's own binary
\* matcher returns true on the text; it holds no duplicate; membership does
\* not depend on the configuration order or on the other labels.
C10_LabelIffOwnMatcher ==
    (target = "multilabel" /\ cret # None) =>
        LET cfg == regex_binary_classifier_per_label
        IN  /\ \A i \in 1..Len(cfg) :
                  (cfg[i][1] \in Range(cret[1]))
                      <=> BinaryClassify(cfg[i][2], data).ret
            /\ Range(cret[1]) \subseteq Range(DictKeyList(cfg))
            /\ IsInjective(cret[1])
            /\ \A q \in [1..Len(cfg) -> 1..Len(cfg)] :
                  IsInjective(q) =>
                      Range(MultiLabelClassify([i \in 1..Len(cfg) |-> cfg[q[i]]],
                                               data))
                          = Range(cret[1])

\* two configured labels, both of whose matchers returned true
C10_Witness ==
    /\ target = "multilabel"
    /\ cret # None
    /\ Len(regex_binary_classifier_per_label) >= 2
    /\ Len(cret[1]) >= 2

----------------------------------------------------------------------------
(* Properties of construction *)

\* p is a str or a list of str (a non-empty one when nonempty is asked)
PatternsValid(p, nonempty) ==
    \/ p.type = "str"
    \/ /\ p.type = "list"
       /\ \A i \in 1..Len(p.val) : p.val[i] # NonStr
       /\ (nonempty => Len(p.val) > 0)

KwargsValid(k) ==
    /\ PatternsValid(k.regex_patterns, TRUE)
    /\ PatternsValid(k.unwanted_regex_patterns, FALSE)

\* C11: constructing a binary matcher fails with the invalid-pattern error
\* (ValueError) whenever the inclusion or exclusion patterns are neither a
\* string nor a non-empty sequence of strings (a non-sequence value, a
\* sequence with a non-string element, an empty inclusion sequence); the same
\* error leaves multi-label construction when a label's configuration is
\* invalid.
C11_InvalidPatternsRejected ==
    (ctor_args # None /\ target # "none") =>
        LET a == ctor_args[1]
            invalid == IF a.kind = "binary"
                       THEN ~KwargsValid(a.kwargs)
                       ELSE \E i \in 1..Len(a.kwargs) :
                                ~KwargsValid(a.kwargs[i][2])
        IN  invalid => (target = "failed" /\ ctor_exc = <<"ValueError">>)

----------------------------------------------------------------------------
(* Properties of repeated calls *)

\* C12: a call leaves the configuration and the per-label matchers of the
\* classifier as construction made them, so after any sequence of calls a
\* call on a text returns what the first call on that text returned.
C12_CallsLeaveClassifierUnchanged ==
    (calls # <<>>) =>
        LET a == ctor_args[1]
        IN  /\ a.kind = "binary" =>
                  binary = RegexBinaryClassifierAgent(a.kwargs)
            /\ a.kind # "binary" =>
                  regex_binary_classifier_per_label
                      = LabelToClassifierMapping(a.kwargs)
            /\ a.kind = "multiclass" =>
                  classes_priorities = ResolvePriorities(a.kwargs, a.priorities)
            /\ \A i, j \in 1..Len(calls) :
                  calls[i].data = calls[j].data => calls[i].ret = calls[j].ret

\* a text is classified, then another text with a different result, then
\* the first text again
C12_Witness ==
    /\ Len(calls) >= 3
    /\ calls[1].data = calls[3].data
    /\ calls[2].data # calls[1].data
    /\ calls[2].ret # calls[1].ret
    /\ calls[3].ret = calls[1].ret

----------------------------------------------------------------------------
(* Properties of PDFOCRAgent *)

\* _analyze_document has returned / has raised
AnalyzeReturned ==
    \/ ocr_pc \in {"construct", "returned"}
    \/ ocr_pc = "raised" /\ ocr_exc[1].type = "AttributeError"
AnalyzeRaised == ocr_pc = "raised" /\ ocr_exc[1].type = "ProviderError"

\* C16: for every max_attempts, _analyze_document calls the provider at most
\* max_attempts times, stops at the first success and returns its result,
\* and otherwise raises the exception of the last failed attempt; it never
\* returns without a provider result.
C16_AnalyzeReturnsResultOrRaises ==
    /\ Len(provider_calls) <= Max(0, max_attempts)
    /\ \A i \in 1..(Len(provider_calls) - 1) : provider_calls[i] = "error"
    /\ AnalyzeReturned =>
          /\ result # None
          /\ provider_calls # <<>>
          /\ provider_calls[Len(provider_calls)] = "ok"
          /\ result[1].call = Len(provider_calls)
    /\ AnalyzeRaised =>
          /\ provider_calls # <<>>
          /\ provider_calls[Len(provider_calls)] = "error"
          /\ ocr_exc[1].call = Len(provider_calls)

\* C17: pages_analyzed lists exactly the pages sent to the provider: the
\* requested pages lying in 1..total_pages, or every page 1..total_pages
\* when the selector sent is empty.
C17_PagesAnalyzedAreThoseSent ==
    ocr_pc = "returned" =>
        LET requested == {pages[i] : i \in {j \in 1..Len(pages) :
                              1 <= pages[j] /\ pages[j] <= total_pages}}
        IN  /\ Range(output[1].pages_analyzed)
                  = output[1].raw_ocr_result.analyzed
            /\ Range(output[1].pages_analyzed)
                  = (IF pages_str = <<>> THEN 1..total_pages ELSE requested)

====
